---- MODULE Spec2Model ----
(***************************************************************************)
(* Model of src/src/build_almanac.py: the almanac scraper's label lookup   *)
(* (_normalize_lines, _find_line_value), its cached, retrying page fetcher *)
(* (fetch_html) and its range driver (build_almanac).                      *)
(*                                                                         *)
(* Text is a sequence of one-character strings.  The CJK characters of the *)
(* source are written with ASCII stand-ins:                                *)
(*   "Y"  the label yi (U+5B9C)        "J"  the label ji (U+5FCC)           *)
(*   "F"  the full-width colon U+FF1A  ":"  the ASCII colon                *)
(*   " "  a space                      "n"  a line feed                    *)
(***************************************************************************)
EXTENDS Integers, Sequences, FiniteSets, TLC

\* ------------------------------------------------------------------ bounds
\* the longest page text the lookup is exercised with
MaxPageChars == 6
\* the calendar window: NumDays consecutive days from 2026-02-27
NumDays == 3
\* how many times build_almanac is started
MaxRuns == 2

VARIABLES
    cache,        \* the cache directory: cache path -> page text, or NoFile
    outfile,      \* the output file: whether it exists, and its lines
    pc,           \* where the driver is
    err,          \* the exception build_almanac ended with, or None
    start, end, source_name,  \* build_almanac's arguments
    day,          \* the loop variable of build_almanac
    attempt,      \* the loop variable of fetch_html
    last_error,   \* fetch_html's last_error
    call,         \* history of the current fetch_html call
    runlog,       \* history of the current run: the dates it made GETs for and
                  \* tested the cache for, in order; cache and output at its start
    prev,         \* how the previous build_almanac run ended
    runs,         \* number of build_almanac runs started
    in_html, in_label,  \* one label lookup: the page text and the label
    out_lines, out_value,  \* its normalized lines and the value found
    fpc           \* whether the lookup was made

vars == <<cache, outfile, pc, err, start, end, source_name, day, attempt,
          last_error, call, runlog, prev, runs,
          in_html, in_label, out_lines, out_value, fpc>>
driverVars == <<cache, outfile, err, start, end, source_name, day, attempt,
                last_error, call, runlog, prev, runs>>
lookupVars == <<in_html, in_label, out_lines, out_value, fpc>>

\* -------------------------------------------------------------- characters
FWColon == "F"
AsciiColon == ":"
Space == " "
Newline == "n"
LabelYi == <<"Y">>
LabelJi == <<"J">>
\* the labels the lookups of parse_almanac_html are exercised with
Labels == {LabelYi, LabelJi}
\* the characters a page is made of
PageChars == {"Y", "J", FWColon, AsciiColon, Space, Newline}
\* Python's None
None == <<"None">>

\* ---------------------------------------------------------- str operations
\* str.startswith
StartsWith(s, p) == Len(s) >= Len(p) /\ SubSeq(s, 1, Len(p)) = p

\* s[k:] for k characters dropped
Drop(s, k) == SubSeq(s, k + 1, Len(s))

\* str.lstrip(chars)
RECURSIVE LStrip(_, _)
LStrip(s, chars) ==
    IF s # <<>> /\ Head(s) \in chars THEN LStrip(Tail(s), chars) ELSE s

\* str.rstrip(chars)
RECURSIVE RStrip(_, _)
RStrip(s, chars) ==
    IF s # <<>> /\ s[Len(s)] \in chars
    THEN RStrip(SubSeq(s, 1, Len(s) - 1), chars) ELSE s

\* str.strip(): surrounding whitespace removed
Strip(s) == RStrip(LStrip(s, {Space, Newline}), {Space, Newline})

\* str.find: index of the first occurrence of p in s, 0 when there is none
RECURSIVE FindAt(_, _, _)
FindAt(s, p, i) ==
    IF i + Len(p) - 1 > Len(s) THEN 0
    ELSE IF SubSeq(s, i, i + Len(p) - 1) = p THEN i
    ELSE FindAt(s, p, i + 1)

\* p in s
Contains(s, p) == FindAt(s, p, 1) # 0

\* s.split(p, 1)[1]: what follows the first occurrence of p
AfterFirst(s, p) == Drop(s, FindAt(s, p, 1) + Len(p) - 1)

\* str.splitlines
RECURSIVE SplitLines(_, _)
SplitLines(s, cur) ==
    IF s = <<>> THEN (IF cur = <<>> THEN <<>> ELSE <<cur>>)
    ELSE IF Head(s) = Newline THEN <<cur>> \o SplitLines(Tail(s), <<>>)
    ELSE SplitLines(Tail(s), Append(cur, Head(s)))

\* re.sub(r"\s+", " ", raw): every run of whitespace becomes one space
RECURSIVE CollapseWs(_)
CollapseWs(s) ==
    IF s = <<>> THEN <<>>
    ELSE IF Head(s) = Space
         THEN <<Space>> \o CollapseWs(LStrip(Tail(s), {Space}))
         ELSE <<Head(s)>> \o CollapseWs(Tail(s))

\* _normalize_lines: the non-empty, whitespace-collapsed, stripped lines
RECURSIVE CleanLines(_)
CleanLines(raws) ==
    IF raws = <<>> THEN <<>>
    ELSE LET cleaned == Strip(CollapseWs(Head(raws)))
         IN  (IF cleaned # <<>> THEN <<cleaned>> ELSE <<>>) \o CleanLines(Tail(raws))

_normalize_lines(html) == CleanLines(SplitLines(html, <<>>))

\* ------------------------------------------------------- _find_line_value
label_colon(label) == Append(label, FWColon)
label_ascii_colon(label) == Append(label, AsciiColon)

\* the value each return statement of the loop body produces
\* variant: the label line itself is returned
Value1_SameLine(lines, label, idx) == Strip(lines[idx])
\* return lines[idx + 1].strip()
Value1(lines, label, idx) == Strip(lines[idx + 1])
\* variant: the remainder is returned unstripped
Value2_NoStrip(lines, label, idx) == Drop(lines[idx], Len(label_colon(label)))
\* return line[len(label_colon):].strip()
Value2(lines, label, idx) == Strip(Drop(lines[idx], Len(label_colon(label))))
\* return line[len(label_ascii_colon):].strip()
Value3(lines, label, idx) == Strip(Drop(lines[idx], Len(label_ascii_colon(label))))
\* remainder = line[len(label):].lstrip(" F:"); return remainder
Value4(lines, label, idx) ==
    LStrip(Drop(lines[idx], Len(label)), {Space, FWColon, AsciiColon})
\* return line.split(label_colon, 1)[1].strip()
Value5(lines, label, idx) == Strip(AfterFirst(lines[idx], label_colon(label)))
\* return line.split(label_ascii_colon, 1)[1].strip()
Value6(lines, label, idx) == Strip(AfterFirst(lines[idx], label_ascii_colon(label)))

\* the six tests the loop body makes on one line, in the order it makes them
Rule1(lines, label, idx) == lines[idx] = label /\ idx + 1 <= Len(lines)
Rule2(lines, label, idx) == StartsWith(lines[idx], label_colon(label))
Rule3(lines, label, idx) == StartsWith(lines[idx], label_ascii_colon(label))
Rule4(lines, label, idx) ==
    /\ StartsWith(lines[idx], label)
    /\ Value4(lines, label, idx) # <<>>
Rule5(lines, label, idx) == Contains(lines[idx], label_colon(label))
Rule6(lines, label, idx) == Contains(lines[idx], label_ascii_colon(label))

RuleMatches(r, lines, label, idx) ==
    CASE r = 1 -> Rule1(lines, label, idx)
      [] r = 2 -> Rule2(lines, label, idx)
      [] r = 3 -> Rule3(lines, label, idx)
      [] r = 4 -> Rule4(lines, label, idx)
      [] r = 5 -> Rule5(lines, label, idx)
      [] r = 6 -> Rule6(lines, label, idx)

RuleValue(r, lines, label, idx) ==
    CASE r = 1 -> Value1(lines, label, idx)
      [] r = 2 -> Value2(lines, label, idx)
      [] r = 3 -> Value3(lines, label, idx)
      [] r = 4 -> Value4(lines, label, idx)
      [] r = 5 -> Value5(lines, label, idx)
      [] r = 6 -> Value6(lines, label, idx)

Rules == 1..6

\* variant: the tests of the loop body taken in the reverse order
LineRule_Last(lines, label, idx) ==
    IF \E r \in Rules : RuleMatches(r, lines, label, idx)
    THEN CHOOSE r \in Rules :
            /\ RuleMatches(r, lines, label, idx)
            /\ \A q \in Rules : q > r => ~RuleMatches(q, lines, label, idx)
    ELSE 0

\* the line's first matching rule, 0 when the line matches none
LineRule(lines, label, idx) ==
    IF \E r \in Rules : RuleMatches(r, lines, label, idx)
    THEN CHOOSE r \in Rules :
            /\ RuleMatches(r, lines, label, idx)
            /\ \A q \in Rules : q < r => ~RuleMatches(q, lines, label, idx)
    ELSE 0

\* for idx, line in enumerate(lines): the first line with a matching rule returns
RECURSIVE FindFrom(_, _, _)
FindFrom(lines, label, idx) ==
    IF idx > Len(lines) THEN None
    ELSE IF LineRule(lines, label, idx) # 0
         THEN RuleValue(LineRule(lines, label, idx), lines, label, idx)
         ELSE FindFrom(lines, label, idx + 1)

_find_line_value(lines, label) == FindFrom(lines, label, 1)


\* _split_items: the non-empty pieces between runs of whitespace (or of the
\* enumeration comma, which no page of the model contains)
RECURSIVE SplitWs(_, _)
SplitWs(s, cur) ==
    IF s = <<>> THEN (IF cur = <<>> THEN <<>> ELSE <<cur>>)
    ELSE IF Head(s) \in {Space, Newline}
         THEN (IF cur = <<>> THEN <<>> ELSE <<cur>>) \o SplitWs(Tail(s), <<>>)
         ELSE SplitWs(Tail(s), Append(cur, Head(s)))

_split_items(raw) == IF raw = None \/ raw = <<>> THEN <<>> ELSE SplitWs(raw, <<>>)

\* ------------------------------------------------------------------ dates
\* a date is its offset in days from 2026-02-27; current += timedelta(days=1)
\* is + 1, and February 2026 has 28 days
Dates == 0 .. (NumDays - 1)
Year(d) == 2026
Month(d) == IF d <= 1 THEN 2 ELSE 3
DayOfMonth(d) == IF d <= 1 THEN 27 + d ELSE d - 1

\* target_date.strftime("%Y-%m-%d"): zero-padded month and day
strftime(d) ==
    <<Year(d), Month(d) \div 10, Month(d) % 10, DayOfMonth(d) \div 10, DayOfMonth(d) % 10>>

\* list(_date_range(start, end))
RECURSIVE _date_range(_, _)
_date_range(s, e) == IF s <= e THEN <<s>> \o _date_range(s + 1, e) ELSE <<>>

\* ---------------------------------------------------------------- sources
SOURCES == {"huangli123"}
SourceNames == {"huangli123", "other"}

\* source.url_template.format(year=..., month=..., day=...): no padding
UrlFor(src, d) == <<src, Year(d), Month(d), DayOfMonth(d)>>

\* _get_cache_path: <cache_dir>/<year>-<month>-<day>.html, no padding
_get_cache_path(d) == <<Year(d), Month(d), DayOfMonth(d)>>
CachePaths == {_get_cache_path(d) : d \in Dates}

NoFile == <<"NoFile">>
\* the output path before any run created it
NoOutput == [exists |-> FALSE, lines |-> <<>>]

\* ------------------------------------------------------------- the server
\* page texts the server may answer with
Bodies == { <<"Y", FWColon, "J">>, <<"J", Newline, "Y">> }
\* session.get either returns a response or raises
Responses ==
    [kind : {"response"}, status_code : {200}, text : Bodies]
    \cup [kind : {"response"}, status_code : {404}, text : {<<>>}]
    \cup [kind : {"raise"}, status_code : {0}, text : {<<"Timeout">>}]

\* ------------------------------------------------------ parse_almanac_html
parse_almanac_html(text, target_date, url) ==
    LET ls == _normalize_lines(text)
    IN  [ date |-> strftime(target_date),
          yi   |-> _split_items(_find_line_value(ls, LabelYi)),
          ji   |-> _split_items(_find_line_value(ls, LabelJi)),
          url  |-> url ]

\* -------------------------------------------------------------- fetch_html
\* range(3)
MaxAttempts == 3

\* variant: the cache is never consulted
cache_exists_Never(c, path) == FALSE
\* cache_path.exists()
cache_exists(c, path) == c[path] # NoFile

\* variant: any response counts as a success
IsOk_AnyStatus(resp) == resp.kind = "response"
\* response.status_code == 200, for a session.get that returned
IsOk(resp) == resp.kind = "response" /\ resp.status_code = 200

\* variant: a pause after every failed attempt
ShouldPause_EveryAttempt(a) == a < 3
\* if attempt < 2: time.sleep(1.0)
ShouldPause(a) == a < 2

\* variant: the page is not persisted
CacheWrite_Skip(c, path, text) == c
\* cache_path.write_text(response.text)
CacheWrite(c, path, text) == [c EXCEPT ![path] = text]

\* what last_error becomes after a failed attempt, as str() renders it
ErrorOf(resp, url) ==
    IF resp.kind = "response"
    THEN <<"Unexpected status code", resp.status_code, url>>
    ELSE resp.text

\* ----------------------------------------------------------- build_almanac
\* variant: the file is opened for appending
OpenForWrite_Append(f) == [f EXCEPT !.exists = TRUE]
\* output_path.open("w"): the file is created or truncated
OpenForWrite(f) == [exists |-> TRUE, lines |-> <<>>]

\* variant: the record is put in front
WriteRecord_Prepend(f, rec) == [f EXCEPT !.lines = <<rec>> \o @]
\* outfile.write(json.dumps(record) + "\n")
WriteRecord(f, rec) == [f EXCEPT !.lines = Append(@, rec)]

\* variant: the registry is indexed without the membership test
UnsupportedSource_KeyError(src) == [type |-> "KeyError", msg |-> <<src>>]
\* raise ValueError(f"Unsupported source: {source_name}")
UnsupportedSource(src) == [type |-> "ValueError", msg |-> <<"Unsupported source", src>>]

\* the loop of build_almanac after the body ran for d: while current <= end
NextPc(d, e) == IF d + 1 <= e THEN "loop" ELSE "done"

NoCall == [date |-> 0, hadCache |-> FALSE, cached |-> NoFile, gets |-> 0,
           sleeps |-> 0, result |-> None, raised |-> 0, responses |-> <<>>]
NoPrev == [outcome |-> "none", start |-> 0, end |-> 0, failedAt |-> 0]

DriverInit ==
    /\ cache = [p \in CachePaths |-> NoFile]
    /\ outfile = NoOutput
    /\ err = None
    /\ start = 0 /\ end = 0 /\ source_name = "huangli123"
    /\ day = 0 /\ attempt = 0 /\ last_error = None
    /\ call = NoCall
    /\ runlog = [gets |-> <<>>, checks |-> <<>>,
                 cache0 |-> [p \in CachePaths |-> NoFile], out0 |-> NoOutput]
    /\ prev = NoPrev
    /\ runs = 0

LookupIdle ==
    /\ in_html = <<>> /\ in_label = LabelYi
    /\ out_lines = <<>> /\ out_value = None /\ fpc = "off"

Init == DriverInit /\ pc = "idle" /\ LookupIdle

\* build_almanac(s, e, output_path, src) up to the head of its loop
StartBuild(s, e, src) ==
    /\ pc \in {"idle", "done", "failed", "rejected"}
    /\ runs < MaxRuns
    /\ runs' = runs + 1
    /\ prev' = [outcome |-> pc, start |-> start, end |-> end, failedAt |-> day]
    /\ start' = s /\ end' = e /\ source_name' = src
    /\ runlog' = [gets |-> <<>>, checks |-> <<>>, cache0 |-> cache, out0 |-> outfile]
    /\ call' = NoCall
    /\ attempt' = 0 /\ last_error' = None
    /\ day' = s
    /\ IF src \notin SOURCES
       THEN /\ pc' = "rejected"
            /\ err' = UnsupportedSource(src)
            /\ UNCHANGED <<cache, outfile>>
       ELSE /\ outfile' = OpenForWrite(outfile)
            /\ err' = None
            /\ pc' = IF s <= e THEN "loop" ELSE "done"
            /\ UNCHANGED cache
    /\ UNCHANGED lookupVars

\* one iteration of the loop up to fetch_html's cache test: on a hit the
\* iteration completes (read, parse, write the record, pace, step the date)
ProcessDay ==
    /\ pc = "loop"
    /\ LET path == _get_cache_path(day)
           url  == UrlFor(source_name, day)
       IN  /\ runlog' = [runlog EXCEPT !.checks = Append(@, day)]
           /\ IF cache_exists(cache, path)
              THEN /\ call' = [date |-> day, hadCache |-> cache[path] # NoFile,
                               cached |-> cache[path], gets |-> 0, sleeps |-> 0,
                               result |-> cache[path], raised |-> 0, responses |-> <<>>]
                   /\ outfile' = WriteRecord(outfile, parse_almanac_html(cache[path], day, url))
                   /\ pc' = NextPc(day, end)
                   /\ day' = day + 1
              ELSE /\ call' = [date |-> day, hadCache |-> cache[path] # NoFile,
                               cached |-> cache[path], gets |-> 0, sleeps |-> 0,
                               result |-> None, raised |-> 0, responses |-> <<>>]
                   /\ pc' = "get"
                   /\ UNCHANGED <<outfile, day>>
    /\ attempt' = 0 /\ last_error' = None
    /\ UNCHANGED <<cache, err, start, end, source_name, prev, runs>>
    /\ UNCHANGED lookupVars

\* one pass of fetch_html's retry loop, the server answering resp; a 200
\* completes the iteration of build_almanac, the last failure raises FetchError
Attempt(resp) ==
    /\ pc = "get"
    /\ attempt < MaxAttempts
    /\ LET path == _get_cache_path(day)
           url  == UrlFor(source_name, day)
       IN  /\ runlog' = [runlog EXCEPT !.gets = IF call.gets = 0 THEN Append(@, day) ELSE @]
           /\ IF IsOk(resp)
              THEN /\ cache' = CacheWrite(cache, path, resp.text)
                   /\ call' = [call EXCEPT !.gets = @ + 1, !.responses = Append(@, resp), !.result = resp.text]
                   /\ outfile' = WriteRecord(outfile, parse_almanac_html(resp.text, day, url))
                   /\ pc' = NextPc(day, end)
                   /\ day' = day + 1
                   /\ UNCHANGED <<attempt, last_error, err>>
              ELSE /\ last_error' = ErrorOf(resp, url)
                   /\ attempt' = attempt + 1
                   /\ IF attempt + 1 < MaxAttempts
                      THEN /\ call' = [call EXCEPT !.gets = @ + 1, !.responses = Append(@, resp),
                                         !.sleeps = IF ShouldPause(attempt) THEN @ + 1 ELSE @]
                           /\ UNCHANGED <<pc, err>>
                      ELSE /\ call' = [call EXCEPT !.gets = @ + 1, !.responses = Append(@, resp),
                                         !.sleeps = IF ShouldPause(attempt) THEN @ + 1 ELSE @,
                                         !.raised = @ + 1]
                           /\ pc' = "failed"
                           /\ err' = [type |-> "FetchError", msg |-> ErrorOf(resp, url)]
                   /\ UNCHANGED <<cache, outfile, day>>
    /\ UNCHANGED <<start, end, source_name, prev, runs>>
    /\ UNCHANGED lookupVars

Next ==
    \/ \E s \in Dates, e \in Dates, src \in SourceNames : StartBuild(s, e, src)
    \/ ProcessDay
    \/ \E resp \in Responses : Attempt(resp)

Spec == Init /\ [][Next]_vars

\* ------------------------------------------------------- the label lookup
\* every text of at most n characters
RECURSIVE TextsUpTo(_)
TextsUpTo(n) ==
    IF n = 0 THEN {<<>>}
    ELSE LET shorter == TextsUpTo(n - 1)
         IN  shorter \cup {Append(t, c) : t \in {u \in shorter : Len(u) = n - 1}, c \in PageChars}

InitLookup ==
    /\ DriverInit /\ pc = "off"
    /\ in_html \in TextsUpTo(MaxPageChars)
    /\ in_label \in Labels
    /\ out_lines = <<>> /\ out_value = None /\ fpc = "input"

\* lines = _normalize_lines(html); _find_line_value(lines, label)
Lookup ==
    /\ fpc = "input"
    /\ out_lines' = _normalize_lines(in_html)
    /\ out_value' = _find_line_value(_normalize_lines(in_html), in_label)
    /\ fpc' = "found"
    /\ UNCHANGED <<in_html, in_label>>
    /\ UNCHANGED driverVars
    /\ UNCHANGED pc

NextLookup == Lookup

SpecLookup == InitLookup /\ [][NextLookup]_vars

\* ================================================================ claims
\* the dates of the inclusive range [s, e], written without _date_range
RangeLen(s, e) == IF s <= e THEN e - s + 1 ELSE 0

\* f holds one record per date of s .. s + n - 1, in that order
RecordsOf(f, s, n) ==
    /\ f.exists
    /\ Len(f.lines) = n
    /\ \A i \in 1..n : f.lines[i].date = strftime(s + i - 1)

\* how a failed answer is described in the FetchError
Describes(msg, resp, d) ==
    IF resp.kind = "response"
    THEN msg = <<"Unexpected status code", resp.status_code, UrlFor(source_name, d)>>
    ELSE msg = resp.text

\* C1: a fetch_html call on a cache miss whose attempts all fail makes exactly
\* 3 GETs and 2 one-second pauses and ends with one FetchError describing the
\* last failure; no call ever makes more than 3 GETs.
C1_RetryExhaustion ==
    /\ call.gets <= 3
    /\ call.raised <= 1
    /\ pc = "failed" =>
         /\ call.gets = 3
         /\ call.sleeps = 2
         /\ call.raised = 1
         /\ err.type = "FetchError"
         /\ Describes(err.msg, call.responses[3], call.date)
    /\ (pc = "get" /\ call.gets = Len(call.responses)) => call.sleeps = call.gets

\* C1 witness: a call failed on a mix of statuses and a transport exception
C1_Witness ==
    /\ pc = "failed"
    /\ \E i, j \in 1..3 :
         /\ call.responses[i].kind = "response"
         /\ call.responses[j].kind = "raise"

\* C2: the cache changes only by storing, for the date being fetched and
\* with no entry present, the body of a status-200 response; an entry that
\* exists is never changed.
C2_CacheWrittenOnlyOn200 ==
    [][\A p \in CachePaths :
         cache'[p] # cache[p] =>
           /\ cache[p] = NoFile
           /\ pc = "get"
           /\ p = <<Year(day), Month(day), DayOfMonth(day)>>
           /\ LET resp == call'.responses[Len(call'.responses)]
              IN  /\ resp.kind = "response"
                  /\ resp.status_code = 200
                  /\ cache'[p] = resp.text]_vars

\* C2 witness: a page was cached by a call that had failed attempts first,
\* and a later run read it
C2_Witness ==
    /\ runs = 2
    /\ call.gets >= 2
    /\ call.result # None
    /\ \E p \in CachePaths : cache[p] # NoFile /\ runlog.cache0[p] # NoFile

\* C3: a fetch_html call that finds a cached page returns that page and
\* makes no GET and no retry pause.
C3_CacheHit ==
    call.hadCache =>
        /\ call.gets = 0
        /\ call.sleeps = 0
        /\ call.raised = 0
        /\ call.result = call.cached

\* C3 witness: a call was served from the cache
C3_Witness == call.hadCache /\ call.result \in Bodies /\ pc \in {"loop", "done"}

\* C4: when build_almanac completes, the output holds exactly one record per
\* date of [start, end], in ascending order, the i-th with the i-th date, and
\* nothing of an earlier run.
C4_OneRecordPerDate ==
    pc = "done" => RecordsOf(outfile, start, RangeLen(start, end))

\* C4 witness: a second run over several days completed over an output file
\* that already held records
C4_Witness ==
    /\ pc = "done" /\ runs = 2 /\ end > start
    /\ runlog.out0.lines # <<>>

\* C5: when a run aborts at date d, it ends with the FetchError, it made no
\* GET and no cache access for a date after d, and the output holds exactly
\* the records of the dates before d, in order.
C5_AbortAtFirstFailure ==
    pc = "failed" =>
        /\ err.type = "FetchError"
        /\ day \in start..end
        /\ RecordsOf(outfile, start, day - start)
        /\ \A i \in DOMAIN runlog.gets : runlog.gets[i] <= day
        /\ \A i \in DOMAIN runlog.checks : runlog.checks[i] <= day
        /\ runlog.checks = [i \in 1..(day - start + 1) |-> start + i - 1]

\* C5 witness: a run aborted after writing two records, with later dates left
C5_Witness == pc = "failed" /\ day >= start + 2 /\ Len(outfile.lines) = 2

\* C6 as stated: an unregistered source name fails with UnsupportedSourceError
\* before any network activity, cache and output untouched.
C6_Original ==
    pc = "rejected" =>
        /\ err.type = "UnsupportedSourceError"
        /\ runlog.gets = <<>> /\ runlog.checks = <<>>
        /\ cache = runlog.cache0 /\ outfile = runlog.out0

\* C6 amended: an unregistered source name fails with ValueError ("Unsupported
\* source: <name>") before any network activity: no GET, no cache access, and
\* the cache and the output file are as they were.
C6_RejectedBeforeAnyActivity ==
    pc = "rejected" =>
        /\ source_name \notin {"huangli123"}
        /\ err.type = "ValueError"
        /\ err.msg = <<"Unsupported source", source_name>>
        /\ runlog.gets = <<>> /\ runlog.checks = <<>>
        /\ cache = runlog.cache0 /\ outfile = runlog.out0

\* C6 witness: a run was rejected while an earlier output file with records
\* and a cached page existed
C6_Witness ==
    /\ pc = "rejected"
    /\ outfile.lines # <<>>
    /\ \E p \in CachePaths : cache[p] # NoFile

\* C10: a run over the same range as the previous run, which aborted at date
\* d, makes no GET for a date before d, and its first GET is for d; no run
\* makes a GET for a date that has a cache entry when it is processed.
C10_RerunSkipsCached ==
    /\ (pc = "get" \/ call.gets > 0) => ~call.hadCache
    /\ (prev.outcome = "failed" /\ prev.start = start /\ prev.end = end
          /\ pc \in {"loop", "get", "done", "failed"}) =>
         /\ \A i \in DOMAIN runlog.gets : runlog.gets[i] >= prev.failedAt
         /\ runlog.gets # <<>> => runlog.gets[1] = prev.failedAt
         /\ pc \in {"done", "failed"} => runlog.gets # <<>>

\* C10 witness: the second run, after an abort at a later date of the same
\* range, went past the cached dates and fetched the failed date
C10_Witness ==
    /\ prev.outcome = "failed" /\ prev.start = start /\ prev.end = end
    /\ prev.failedAt > start
    /\ pc = "done"
    /\ runlog.gets # <<>>


\* ------------------------------------------------ claims on the label lookup
\* the line starts with the label or holds the label followed by a colon
Hijacks(line, lab) ==
    \/ StartsWith(line, lab)
    \/ Contains(line, Append(lab, FWColon))
    \/ Contains(line, Append(lab, AsciiColon))

Min(S) == CHOOSE x \in S : \A y \in S : x <= y

\* the lines of the page that have the form "<label>F<value>"
ColonLines == {i \in DOMAIN out_lines : StartsWith(out_lines[i], Append(in_label, FWColon))}
\* the lines that are the label alone and have a line after them
AloneLines == {i \in DOMAIN out_lines : out_lines[i] = in_label /\ i < Len(out_lines)}
\* the value written after the label and the full-width colon on line i
ValueAfterColon(i) == SubSeq(out_lines[i], Len(in_label) + 2, Len(out_lines[i]))

\* C7 as stated: whatever the other lines are, the value found for a label
\* is the stripped value of the (first) line "<label>F<value>".
C7_Original ==
    (fpc = "found" /\ ColonLines # {}) =>
        out_value = Strip(ValueAfterColon(Min(ColonLines)))

\* C7 amended: if a line has the form "<label>F<value>" and no line before
\* it starts with the label or holds the label followed by a colon, the
\* value found is <value> stripped of surrounding whitespace.
C7_ColonLineValue ==
    fpc = "found" =>
        \A i \in ColonLines :
            (\A j \in 1..(i - 1) : ~Hijacks(out_lines[j], in_label)) =>
                out_value = Strip(ValueAfterColon(i))

\* C7 witness: the colon line comes after a line of the other label, and
\* its value has whitespace to strip
C7_Witness ==
    /\ fpc = "found"
    /\ \E i \in ColonLines :
         /\ i >= 2
         /\ \A j \in 1..(i - 1) : ~Hijacks(out_lines[j], in_label)
         /\ \E j \in 1..(i - 1), other \in Labels \ {in_label} :
                StartsWith(out_lines[j], other)
         /\ Strip(ValueAfterColon(i)) # ValueAfterColon(i)
         /\ out_value # <<>>

\* C8 as stated: whatever the other lines are, the value found for a label
\* is the line after the (first) line that is the label alone.
C8_Original ==
    (fpc = "found" /\ AloneLines # {}) =>
        out_value = out_lines[Min(AloneLines) + 1]

\* C8 amended: if a line is the label alone, has a line after it, and no
\* line before it starts with the label or holds the label followed by a
\* colon, the value found is the content of the following line.
C8_LabelAloneValue ==
    fpc = "found" =>
        \A i \in AloneLines :
            (\A j \in 1..(i - 1) : ~Hijacks(out_lines[j], in_label)) =>
                out_value = out_lines[i + 1]

\* C8 witness: the label-alone line comes after another line
C8_Witness ==
    /\ fpc = "found"
    /\ \E i \in AloneLines :
         /\ i >= 2
         /\ \A j \in 1..(i - 1) : ~Hijacks(out_lines[j], in_label)

\* the lines some rule matches, and the rules that match line i
MatchedLines == {i \in DOMAIN out_lines : \E r \in 1..6 : RuleMatches(r, out_lines, in_label, i)}
RulesOfLine(i) == {r \in 1..6 : RuleMatches(r, out_lines, in_label, i)}
\* the rules that match some line, and the lines rule r matches
MatchedRules == {r \in 1..6 : \E i \in DOMAIN out_lines : RuleMatches(r, out_lines, in_label, i)}
LinesOfRule(r) == {i \in DOMAIN out_lines : RuleMatches(r, out_lines, in_label, i)}

\* C9 as stated: the value found is the one of the lowest-numbered rule that
\* matches any line (at the first line it matches); absent iff no rule matches.
C9_Original ==
    fpc = "found" =>
        IF MatchedRules = {} THEN out_value = None
        ELSE out_value = RuleValue(Min(MatchedRules), out_lines, in_label,
                                   Min(LinesOfRule(Min(MatchedRules))))

\* C9 amended: the value found is the one of the first line that any rule
\* matches, by the lowest-numbered rule matching that line; the label is
\* absent iff no rule matches any line.
C9_FirstLineThenRule ==
    fpc = "found" =>
        IF MatchedLines = {} THEN out_value = None
        ELSE /\ out_value # None
             /\ out_value = RuleValue(Min(RulesOfLine(Min(MatchedLines))), out_lines,
                                      in_label, Min(MatchedLines))

\* C9 witness: the first matching line matches only rules that come after a
\* rule matching a later line, and a line matches two rules of different value
C9_Witness ==
    /\ fpc = "found"
    /\ MatchedLines # {}
    /\ Min(RulesOfLine(Min(MatchedLines))) > Min(MatchedRules)
    /\ out_value # RuleValue(Min(MatchedRules), out_lines, in_label,
                             Min(LinesOfRule(Min(MatchedRules))))

====
